---- MODULE Spec2Model ----
(***************************************************************************)
(* State-machine model of src/src/bloom_filter.py (class BloomFilter).     *)
(*                                                                         *)
(* A fixed set of object slots holds the BloomFilter instances of one      *)
(* Python process.  Every public method is one action.  Floating-point     *)
(* quantities are carried in fixed point (logarithms in 1e-6 units, the    *)
(* estimator in 1e-4 units); hash values are carried in a reduced width    *)
(* because TLC's integers are 32 bits wide.  bitarray(length) is modelled  *)
(* as documented for bitarray before 3.0 (the buffer is not initialised)   *)
(* and from 3.0 on (all zeros): both contents are possible.                *)
(***************************************************************************)
EXTENDS Integers, Sequences, FiniteSets, TLC

VARIABLES
    live,                 \* slots whose construction succeeded
    expected_insertions,  \* self._expected_insertions
    fp_rate,              \* self._fp_rate
    bit_array,            \* self._bit_array: its length and the indices at 1
    hash_functions,       \* self._hash_functions, as the seeds of the partials
    residue,              \* history: the bits that bitarray() left set in this
                          \* filter's buffer or in a buffer united into it
    inserted,             \* history: items put directly or arrived by put_all
    last                  \* the call that was made last and its outcome

vars == <<live, expected_insertions, fp_rate, bit_array,
          hash_functions, residue, inserted, last>>

----------------------------------------------------------------------------
(* Bounds of the model *)

MaxN == 2          \* largest expected_insertions tried
MaxDirty == 1      \* an uninitialised buffer may hold a 1 at an index below it

(* Program constants *)

PoolSize == 30     \* range(30)
SigBytes == 64     \* to_bytes(64, ...)

FilterIds == {"A", "B"}

----------------------------------------------------------------------------
(* Values handed to the methods *)

PyInt(v)    == [t |-> "int", v |-> v, s |-> <<>>]
PyStr(cs)   == [t |-> "str", v |-> 0, s |-> cs]
Real(a, b)  == [t |-> "float", num |-> a, den |-> b]

\* the items 1 and "1" (a string is its code points)
Items == {PyInt(1), PyStr(<<49>>)}

\* expected_insertions arguments: "hello", 2.0, -500, 0, 1..MaxN
InsertionArgs ==
    {PyStr(<<104, 101, 108, 108, 111>>), [t |-> "float", v |-> 2, s |-> <<>>],
     PyInt(-500), PyInt(0)} \cup {PyInt(n) : n \in 1..MaxN}

\* fp_rate arguments that pass validation
ValidRates == {Real(9, 10), Real(7, 10), Real(1, 2), Real(1, 2000000000)}

\* fp_rate arguments: "hello", 0.1+3j, 0, 1, -1, 100 and the valid ones
RateArgs ==
    {[t |-> "str", num |-> 0, den |-> 1], [t |-> "complex", num |-> 1, den |-> 10],
     Real(0, 1), Real(1, 1), Real(-1, 1), Real(100, 1)} \cup ValidRates

\* a put_all argument that is no BloomFilter: the list [0, 0, 0]
NotAFilter == "list"

Min(a, b) == IF a < b THEN a ELSE b

----------------------------------------------------------------------------
(* math.log, math.ceil, round *)

\* -math.log(p) in 1e-6 units, for the rates of ValidRates
NegLog(p) ==
    CASE p = Real(9, 10)          -> 105361
      [] p = Real(7, 10)          -> 356675
      [] p = Real(1, 2)           -> 693147
      [] p = Real(1, 2000000000)  -> 21416413

CeilDiv(a, b) == IF a % b = 0 THEN a \div b ELSE (a \div b) + 1

\* round(a / b): to nearest, ties to even
RoundDiv(a, b) ==
    LET q == a \div b
        r == a % b
    IN  IF 2 * r > b THEN q + 1
        ELSE IF 2 * r < b THEN q
        ELSE IF q % 2 = 0 THEN q ELSE q + 1

----------------------------------------------------------------------------
(* hash(item).to_bytes(64, byteorder='big', signed=True) *)

RECURSIVE StrHash(_, _)
\* hash() of a str: a mix of its code points, as a signed machine word
\* (reduced to 16 bits)
StrHash(cs, acc) ==
    IF cs = <<>>
    THEN IF acc >= 32768 THEN acc - 65536 ELSE acc
    ELSE StrHash(Tail(cs), (acc * 131 + Head(cs)) % 65536)

\* hash(item): an int hashes to itself (and -1 to -2), a str to a mix of its
\* characters
PyHash(item) ==
    IF item.t = "int"
    THEN IF item.v = -1 THEN -2 ELSE item.v
    ELSE StrHash(item.s, 12345)

\* int.to_bytes(SigBytes, 'big', signed=True): two's complement, most
\* significant byte first; |h| < 2^23, so bytes above the third are sign bytes
ToBytes(h) ==
    [j \in 1..SigBytes |->
        LET i == SigBytes - j
        IN  IF i = 0 THEN h % 256
            ELSE IF i = 1 THEN (h \div 256) % 256
            ELSE IF i = 2 THEN (h \div 65536) % 256
            ELSE IF h < 0 THEN 255 ELSE 0]

Signature(item) == ToBytes(PyHash(item))

----------------------------------------------------------------------------
(* _hash_fn_pool = [partial(xxh3_64_intdigest, seed=i) for i in range(30)] *)

hash_fn_pool == [i \in 1..PoolSize |-> i - 1]

\* one 8-byte stripe of the input, its bytes weighted by position
Stripe(bytes, s) ==
    LET b(i) == bytes[8 * s + i]
    IN  b(1) + 3 * b(2) + 5 * b(3) + 7 * b(4) + 11 * b(5) + 13 * b(6)
          + 17 * b(7) + 19 * b(8)

RECURSIVE XXHFold(_, _, _)
\* the accumulator over the stripes s, s+1, ... of the input
XXHFold(bytes, s, acc) ==
    IF 8 * s >= Len(bytes) THEN acc
    ELSE XXHFold(bytes, s + 1, (acc * 31 + Stripe(bytes, s) + 1) % 32749)

\* xxh3_64_intdigest(bytes, seed): a seeded digest of the bytes (reduced
\* width: values in 0..32748)
xxh3_intdigest(bytes, seed) ==
    LET a == XXHFold(bytes, 0, (seed * 9973 + 12345) % 32749)
    IN  (a * a + seed) % 32749

\* the digests of every item under every function of the pool, computed once
DigestTable ==
    [x \in Items |-> [seed \in 0..(PoolSize - 1) |->
        xxh3_intdigest(Signature(x), seed)]]

\* hasher(byte_signature) for the pool function with this seed
Hasher(seed, x) == DigestTable[x][seed]

----------------------------------------------------------------------------
(* BloomFilter.__init__ *)

\* a variant that checks fp_rate before expected_insertions
ValidateRateFirst(ei, fp) ==
    IF fp.t \notin {"float", "complex"} THEN "TypeError"
    ELSE IF fp.t = "complex" THEN "TypeError"
    ELSE IF fp.num <= 0 \/ fp.num >= fp.den THEN "ValueError"
    ELSE IF ei.t # "int" THEN "TypeError"
    ELSE IF ei.v <= 0 THEN "ValueError"
    ELSE "ok"

\* the isinstance and range checks of __init__, in their order
Validate(ei, fp) ==
    IF ei.t # "int" THEN "TypeError"
    ELSE IF ei.v <= 0 THEN "ValueError"
    ELSE IF fp.t \notin {"float", "complex"} THEN "TypeError"
    ELSE IF fp.t = "complex" THEN "TypeError"
    ELSE IF fp.num <= 0 \/ fp.num >= fp.den THEN "ValueError"
    ELSE "ok"

\* ceil(-n * log(p) / log(2) ** 2), log(2) ** 2 = 0.480453
BitArrayLength(n, p) == CeilDiv(n * NegLog(p), 480453)

\* a bitarray object: len(b), b[i]
NoBits == [len |-> 0, ones |-> {}]
BitLen(b) == b.len
GetBit(b, i) == IF i \in b.ones THEN 1 ELSE 0

\* bitarray(length): a buffer of that many bits that is not initialised; it
\* holds whatever the allocator left there (here: all zeros, or a single 1
\* at an index below MaxDirty)
Bitarray(length) ==
    {[len |-> length, ones |-> {}]}
        \cup {[len |-> length, ones |-> {i}] :
                 i \in 0..(Min(length, MaxDirty) - 1)}

\* round((m / n) * log(2)), log(2) = 0.693147
HashCount(m, n) == RoundDiv(m * 693147, n * 1000000)

\* BloomFilter._hash_fn_pool[:k], a slice: it stops at the end of the pool
PickHashFunctions(m, n) ==
    SubSeq(hash_fn_pool, 1, Min(HashCount(m, n), Len(hash_fn_pool)))

Call(op, self, arg, out) == [op |-> op, self |-> self, arg |-> arg, out |-> out]

Init ==
    /\ live = {}
    /\ expected_insertions = [f \in FilterIds |-> 0]
    /\ fp_rate = [f \in FilterIds |-> Real(0, 1)]
    /\ bit_array = [f \in FilterIds |-> NoBits]
    /\ hash_functions = [f \in FilterIds |-> <<>>]
    /\ residue = [f \in FilterIds |-> {}]
    /\ inserted = [f \in FilterIds |-> {}]
    /\ last = Call("none", "none", "none", "none")

\* f = BloomFilter(ei, fp)
New(f, ei, fp) ==
    /\ f \notin live
    /\ IF Validate(ei, fp) # "ok"
       THEN /\ last' = Call("__init__", f, <<ei, fp>>, Validate(ei, fp))
            /\ UNCHANGED <<live, expected_insertions, fp_rate, bit_array,
                           hash_functions, residue, inserted>>
       ELSE \E bits \in Bitarray(BitArrayLength(ei.v, fp)) :
            /\ live' = live \cup {f}
            /\ expected_insertions' = [expected_insertions EXCEPT ![f] = ei.v]
            /\ fp_rate' = [fp_rate EXCEPT ![f] = fp]
            /\ bit_array' = [bit_array EXCEPT ![f] = bits]
            /\ hash_functions' = [hash_functions EXCEPT
                    ![f] = PickHashFunctions(BitLen(bits), ei.v)]
            /\ residue' = [residue EXCEPT ![f] = bits.ones]
            /\ last' = Call("__init__", f, <<ei, fp>>, "ok")
            /\ UNCHANGED inserted

----------------------------------------------------------------------------
(* expected_fpp *)

RECURSIVE ExpTerms(_, _, _, _)
\* the series of exp(-x), x and the result in 1e-4 units
ExpTerms(x, i, term, acc) ==
    IF i > 12 THEN acc
    ELSE LET t == (term * x) \div (i * 10000)
         IN  ExpTerms(x, i + 1, t, IF i % 2 = 1 THEN acc - t ELSE acc + t)

ExpNeg(x) == ExpTerms(x, 1, 10000, 10000)

RECURSIVE Pow(_, _)
\* b ** k in 1e-4 units; b ** 0 is 1.0
Pow(b, k) == IF k = 0 THEN 10000 ELSE (b * Pow(b, k - 1)) \div 10000

\* (1 - exp(-(k * n) / m)) ** k
ExpectedFppOf(k, n, m) == Pow(10000 - ExpNeg((k * n * 10000) \div m), k)

\* a variant that uses the number of bits set in place of expected_insertions
ExpectedFppActual(hfs, n, bits) ==
    ExpectedFppOf(Len(hfs), Cardinality(bits.ones), BitLen(bits))

\* expected_fpp on the fields of a filter: k = len(self._hash_functions),
\* n = self._expected_insertions, m = len(self._bit_array)
ExpectedFpp(hfs, n, bits) == ExpectedFppOf(Len(hfs), n, BitLen(bits))

\* f.expected_fpp()
CallExpectedFpp(f) ==
    /\ f \in live
    /\ last' = Call("expected_fpp", f, "none",
                    ExpectedFpp(hash_functions[f], expected_insertions[f],
                                bit_array[f]))
    /\ UNCHANGED <<live, expected_insertions, fp_rate, bit_array,
                   hash_functions, residue, inserted>>

----------------------------------------------------------------------------
(* may_contain, put *)

\* bucket = hasher(byte_signature) % len(self._bit_array)
Bucket(seed, x, m) == Hasher(seed, x) % m

\* the buckets the loop over self._hash_functions visits for item x
Buckets(hfs, x, m) == {Bucket(hfs[j], x, m) : j \in 1..Len(hfs)}

\* the loop of may_contain: False at the first visited bucket that holds 0,
\* True when the hash functions are exhausted
MayContainBits(bits, hfs, x) ==
    \A j \in 1..Len(hfs) : GetBit(bits, Bucket(hfs[j], x, BitLen(bits))) # 0

MayContain(f, x) == MayContainBits(bit_array[f], hash_functions[f], x)

\* a variant that stops after the first hash function
PutBitsFirstOnly(bits, hfs, x) ==
    [bits EXCEPT !.ones = @ \cup Buckets(SubSeq(hfs, 1, Min(1, Len(hfs))), x,
                                         BitLen(bits))]

\* a variant that flips the visited buckets instead of setting them
PutBitsToggle(bits, hfs, x) ==
    [bits EXCEPT !.ones = (@ \ Buckets(hfs, x, BitLen(bits)))
                            \cup (Buckets(hfs, x, BitLen(bits)) \ @)]

\* the loop of put: bit_array[bucket] = 1 for every visited bucket
PutBits(bits, hfs, x) ==
    [bits EXCEPT !.ones = @ \cup Buckets(hfs, x, BitLen(bits))]

\* f.may_contain(x)
CallMayContain(f, x) ==
    /\ f \in live
    /\ last' = Call("may_contain", f, x, MayContain(f, x))
    /\ UNCHANGED <<live, expected_insertions, fp_rate, bit_array,
                   hash_functions, residue, inserted>>

\* f.put(x)
Put(f, x) ==
    /\ f \in live
    /\ bit_array' = [bit_array EXCEPT
            ![f] = PutBits(bit_array[f], hash_functions[f], x)]
    /\ inserted' = [inserted EXCEPT ![f] = @ \cup {x}]
    /\ last' = Call("put", f, x, "none")
    /\ UNCHANGED <<live, expected_insertions, fp_rate, hash_functions,
                   residue>>

----------------------------------------------------------------------------
(* _is_compatible, put_all *)

\* a variant without the same-instance check
IsCompatibleNoSelfCheck(self, other) ==
    IF other \notin FilterIds THEN FALSE
    ELSE IF Len(hash_functions[self]) # Len(hash_functions[other]) THEN FALSE
    ELSE IF BitLen(bit_array[self]) # BitLen(bit_array[other]) THEN FALSE
    ELSE TRUE

IsCompatible(self, other) ==
    IF other \notin FilterIds THEN FALSE
    ELSE IF self = other THEN FALSE
    ELSE IF Len(hash_functions[self]) # Len(hash_functions[other]) THEN FALSE
    ELSE IF BitLen(bit_array[self]) # BitLen(bit_array[other]) THEN FALSE
    ELSE TRUE

\* a variant that assigns the other array instead of or-ing it in
BitOrOverwrite(a, b) == b

\* self._bit_array |= other._bit_array
BitOr(a, b) ==
    [len |-> BitLen(a),
     ones |-> {i \in 0..(BitLen(a) - 1) : GetBit(a, i) = 1 \/ GetBit(b, i) = 1}]

\* f.put_all(other), other a live filter or a value that is no BloomFilter
PutAll(f, other) ==
    /\ f \in live
    /\ other \in live \cup {NotAFilter}
    /\ IF IsCompatible(f, other)
       THEN /\ bit_array' = [bit_array EXCEPT
                    ![f] = BitOr(bit_array[f], bit_array[other])]
            /\ inserted' = [inserted EXCEPT ![f] = @ \cup inserted[other]]
            /\ residue' = [residue EXCEPT ![f] = @ \cup residue[other]]
            /\ last' = Call("put_all", f, other, "none")
            /\ UNCHANGED <<live, expected_insertions, fp_rate, hash_functions>>
       ELSE /\ last' = Call("put_all", f, other, "ValueError")
            /\ UNCHANGED <<live, expected_insertions, fp_rate, bit_array,
                           hash_functions, residue, inserted>>

----------------------------------------------------------------------------

Next ==
    \/ \E f \in FilterIds, ei \in InsertionArgs, fp \in RateArgs : New(f, ei, fp)
    \/ \E f \in FilterIds : CallExpectedFpp(f)
    \/ \E f \in FilterIds, x \in Items : CallMayContain(f, x)
    \/ \E f \in FilterIds, x \in Items : Put(f, x)
    \/ \E f \in FilterIds, other \in FilterIds \cup {NotAFilter} : PutAll(f, other)

Spec == Init /\ [][Next]_vars

----------------------------------------------------------------------------
(* Auxiliary definitions for the properties *)

Frozen == <<live, expected_insertions, fp_rate, hash_functions>>
State  == <<live, expected_insertions, fp_rate, bit_array, hash_functions>>

Zeros(m) == [len |-> m, ones |-> {}]

RECURSIVE PutMany(_, _, _)
\* the bit array after put(x) for every x of the set S, in some order
PutMany(bits, hfs, S) ==
    IF S = {} THEN bits
    ELSE LET x == CHOOSE y \in S : TRUE
         IN  PutMany(PutBits(bits, hfs, x), hfs, S \ {x})

One   == PyInt(1)
StrOne == PyStr(<<49>>)

----------------------------------------------------------------------------
\* C1: no false negatives.  In every reachable state, every filter answers
\* may_contain(x) = True for every item x that was put into it (directly, or
\* into a filter later united into it), whatever puts and put_alls followed.
NoFalseNegatives ==
    \A f \in live : \A x \in inserted[f] : MayContain(f, x)

\* a filter with several hash functions that holds both items and has just
\* been through a put_all
NoFalseNegativesWitness ==
    /\ last.op = "put_all"
    /\ last.self \in live
    /\ inserted[last.self] = Items
    /\ Len(hash_functions[last.self]) > 1
    /\ \A x \in Items : MayContain(last.self, x)

----------------------------------------------------------------------------
\* C2: union behaves as direct insertion.  Right after a successful
\* B.put_all(A), B's bit array equals the array of an empty filter of the
\* same m and k into which every item ever put into A or B was put directly,
\* and B.may_contain(x) is True for each of these items.
UnionAsDirectInsertion ==
    (last.op = "put_all" /\ last.out = "none") =>
        /\ bit_array[last.self] =
               PutMany(Zeros(BitLen(bit_array[last.self])),
                       hash_functions[last.self], inserted[last.self])
        /\ \A x \in inserted[last.self] : MayContain(last.self, x)

----------------------------------------------------------------------------
\* C3: self.put_all(other) raises ValueError exactly when other is no
\* BloomFilter, or is self, or differs from self in the number of hash
\* functions or in the bit-array length; a rejected put_all changes no bit
\* of any filter.  Nothing else (n, p) decides the outcome.
PutAllRejectsExactlyIncompatible ==
    [][\A f \in FilterIds : \A o \in FilterIds \cup {NotAFilter} :
         (last'.op = "put_all" /\ last'.self = f /\ last'.arg = o) =>
            /\ (last'.out = "ValueError") <=>
                  \/ o \notin FilterIds
                  \/ o = f
                  \/ Len(hash_functions[f]) # Len(hash_functions[o])
                  \/ BitLen(bit_array[f]) # BitLen(bit_array[o])
            /\ (last'.out = "ValueError") => bit_array' = bit_array
      ]_vars

\* a put_all was rejected for the hash-function count alone, on a filter
\* that holds bits
PutAllRejectedWitness ==
    /\ last.op = "put_all"
    /\ last.out = "ValueError"
    /\ last.arg \in live \ {last.self}
    /\ BitLen(bit_array[last.self]) = BitLen(bit_array[last.arg])
    /\ Len(hash_functions[last.self]) # Len(hash_functions[last.arg])
    /\ inserted[last.self] # {}

----------------------------------------------------------------------------
\* C4: construction validation.  BloomFilter(ei, fp) raises TypeError when ei
\* is no int, ValueError when ei <= 0, TypeError when fp is not numeric or is
\* complex, ValueError when fp <= 0 or fp >= 1; the checks on ei come first;
\* a construction that raises creates no filter and changes nothing.
ConstructionValidation ==
    [][(last'.op = "__init__") =>
         LET ei == last'.arg[1]
             fp == last'.arg[2]
             eiOk == ei.t = "int" /\ ei.v > 0
         IN  /\ ei.t # "int" => last'.out = "TypeError"
             /\ (ei.t = "int" /\ ei.v <= 0) => last'.out = "ValueError"
             /\ (eiOk /\ fp.t # "float") => last'.out = "TypeError"
             /\ (eiOk /\ fp.t = "float" /\ (fp.num <= 0 \/ fp.num >= fp.den))
                   => last'.out = "ValueError"
             /\ last'.out # "ok" =>
                   /\ last'.self \notin live'
                   /\ UNCHANGED <<State, residue, inserted>>
      ]_vars

\* BloomFilter(-500, "hello") raised the error of the first check
ConstructionValidationWitness ==
    /\ last.op = "__init__"
    /\ last.arg[1] = PyInt(-500)
    /\ last.arg[2].t = "str"
    /\ last.out = "ValueError"
    /\ last.self \notin live

----------------------------------------------------------------------------
\* C5: a freshly constructed filter is empty.  Right after a successful
\* construction the bit array is all zeros and may_contain(x) is False for
\* every item x.
FreshFilterIsEmpty ==
    (last.op = "__init__" /\ last.out = "ok") =>
        /\ bit_array[last.self].ones = {}
        /\ \A x \in Items : ~MayContain(last.self, x)

----------------------------------------------------------------------------
\* C6: every constructed filter holds exactly k = round((m / n) * ln 2) hash
\* functions, the first k of the pool in pool order, with 1 <= k <= 30 (a
\* construction whose derived k exceeds 30 yields no filter).
HashCountInRange ==
    \A f \in live :
        LET k == HashCount(BitLen(bit_array[f]), expected_insertions[f])
        IN  /\ 1 <= k
            /\ k <= PoolSize
            /\ hash_functions[f] = SubSeq(hash_fn_pool, 1, k)

----------------------------------------------------------------------------
\* C7: expected_fpp() depends only on the n, m and k fixed at construction.
\* No step (put, put_all of any filter, a query, another construction)
\* changes the value it returns for a filter; a call returns the value of
\* (1 - e^(-k n / m))^k at the filter's k, n, m and changes no state.
ExpectedFppIsFrozen ==
    [][/\ \A f \in live :
            (bit_array'[f] # bit_array[f] \/ Frozen' # Frozen) =>
                ExpectedFpp(hash_functions'[f], expected_insertions'[f],
                            bit_array'[f])
                  = ExpectedFpp(hash_functions[f], expected_insertions[f],
                                bit_array[f])
       /\ (last'.op = "expected_fpp") =>
            /\ UNCHANGED <<State, residue, inserted>>
            /\ last'.out =
                  ExpectedFppOf(Len(hash_functions[last'.self]),
                                expected_insertions[last'.self],
                                BitLen(bit_array[last'.self]))
      ]_vars

\* a filter that holds items has just taken in a filter built with another n
ExpectedFppWitness ==
    /\ last.op = "put_all"
    /\ last.out = "none"
    /\ expected_insertions[last.self] # expected_insertions[last.arg]
    /\ inserted[last.arg] # {}
    /\ bit_array[last.self].ones # {}

----------------------------------------------------------------------------
\* C8: may_contain(x) is a function of the bit array and of x's signature:
\* True exactly when each of the k buckets of x holds 1; an int and a str of
\* the same text have different signatures; hence in a filter into which
\* only the int 1 was put, may_contain("1") is True only if every bucket of
\* "1" is a bucket that the put of 1 set.
MayContainReadsOwnBuckets ==
    /\ Signature(One) # Signature(StrOne)
    /\ \A f \in live : \A x \in Items :
          MayContain(f, x) <=>
            Buckets(hash_functions[f], x, BitLen(bit_array[f]))
               \subseteq bit_array[f].ones
    /\ (last.op = "may_contain") => last.out = MayContain(last.self, last.arg)
    /\ \A f \in live :
          (inserted[f] = {One} /\ MayContain(f, StrOne)) =>
              Buckets(hash_functions[f], StrOne, BitLen(bit_array[f]))
                \subseteq Buckets(hash_functions[f], One, BitLen(bit_array[f]))

----------------------------------------------------------------------------
\* C9: bits are monotone and the structure is fixed.  In no step does a bit
\* of a filter go from 1 to 0, does a bit array change its length, does a
\* list of hash functions change, or does a filter cease to exist.
BitsMonotoneStructureFixed ==
    [][\A f \in live :
          /\ f \in live'
          /\ bit_array[f].ones \subseteq bit_array'[f].ones
          /\ BitLen(bit_array'[f]) = BitLen(bit_array[f])
          /\ hash_functions'[f] = hash_functions[f]
      ]_vars

\* after a successful put_all the receiver still holds a bit that the other
\* filter, which holds bits too, does not hold
BitsMonotoneWitness ==
    /\ last.op = "put_all"
    /\ last.out = "none"
    /\ bit_array[last.arg].ones # {}
    /\ bit_array[last.self].ones # bit_array[last.arg].ones

----------------------------------------------------------------------------
\* C10: put is idempotent and order-independent.  In every state reached,
\* a filter's bit array is the array it started from with the buckets of the
\* set of items put or-ed in, whatever the order and the repetitions of the
\* puts; a second put(x) changes nothing; put(x); put(y) and put(y); put(x)
\* give the same array; a put changes no bit outside the buckets of its item
\* and nothing of any other filter.
PutsAsSet ==
    \A f \in live :
        /\ bit_array[f] =
              PutMany([len |-> BitLen(bit_array[f]), ones |-> residue[f]],
                      hash_functions[f], inserted[f])
        /\ \A x \in Items :
              LET b == bit_array[f]
                  h == hash_functions[f]
                  bx == PutBits(b, h, x)
              IN  /\ PutBits(bx, h, x) = bx
                  /\ \A y \in Items \ {x} :
                        PutBits(bx, h, y) = PutBits(PutBits(b, h, y), h, x)

PutFrame ==
    (last'.op = "put") =>
        LET f == last'.self
            x == last'.arg
        IN  /\ UNCHANGED <<Frozen, residue>>
            /\ \A g \in FilterIds \ {f} : bit_array'[g] = bit_array[g]
            /\ BitLen(bit_array'[f]) = BitLen(bit_array[f])
            /\ bit_array'[f].ones \ bit_array[f].ones
                 \subseteq Buckets(hash_functions[f], x, BitLen(bit_array[f]))
            /\ Buckets(hash_functions[f], x, BitLen(bit_array[f]))
                 \subseteq bit_array'[f].ones

PutIdempotentCommutative == []PutsAsSet /\ [][PutFrame]_vars

\* both items were put into a filter in which they have different buckets
PutIdempotentWitness ==
    /\ last.op = "put"
    /\ inserted[last.self] = Items
    /\ Buckets(hash_functions[last.self], One, BitLen(bit_array[last.self]))
         # Buckets(hash_functions[last.self], StrOne,
                   BitLen(bit_array[last.self]))

====
